---- MODULE Spec2Model ----
(***************************************************************************)
(* Model of irit_rst_dt/local.py: the configuration expander of the        *)
(* irit-rst-dt harness (key building, junk filter, parser configurations,  *)
(* the evaluation list).                                                   *)
(*                                                                         *)
(* A Python string is modelled as a sequence of tokens, the delimiter "-"  *)
(* being a token of its own: 'AD.L-jnt' is <<"AD.L", "-", "jnt">>.  String  *)
(* concatenation is \o, so that '-'.join is computed, not assumed.         *)
(*                                                                         *)
(* A call's outcome is a record [exc, val]: exc = "none" and val the       *)
(* returned value, or exc the exception class and val what the message     *)
(* names.                                                                  *)
(***************************************************************************)
EXTENDS Naturals, Sequences, FiniteSets, TLC

VARIABLES
    op,             \* the function of local.py that was called last
    args,           \* its arguments
    ret,            \* its outcome
    tc_prefix       \* what tc_decoder (not in local.py) puts before a decoder key

vars == <<op, args, ret, tc_prefix>>

(***************************************************************************)
(* Bounds                                                                  *)
(***************************************************************************)
\* the longest argument tuple handed to combined_key
MaxVariants == 3
\* the longest declaration list _LOCAL_LEARNERS
MaxLearners == 2

(***************************************************************************)
(* Outcomes                                                                *)
(***************************************************************************)
Return(v) == [exc |-> "none", val |-> v]

Raise(e, what) == [exc |-> e, val |-> what]

None == [none |-> TRUE]

(***************************************************************************)
(* Strings                                                                 *)
(***************************************************************************)
DASH == <<"-">>

\* the key strings the declarations of local.py use
KeyPool ==
    { <<>>, <<"mst">>, <<"local">>, <<"maxent">>,
      <<"AD.L", "-", "jnt">>, <<"dp", "-", "perc">> }

\* a plain string argument
Str(s) == [kind |-> "str", val |-> s]

\* an object with a key field (Keyed, Settings, LearnerConfig, ...)
Obj(k) == [kind |-> "obj", key |-> k]

\* a Python list argument: neither a string nor an object with a key field
List(items) == [kind |-> "list", items |-> items]

\* v if isinstance(v, six.string_types) else v.key
KeyOf(v) == IF v.kind = "str" THEN v.val ELSE v.key

RECURSIVE Join(_)
\* '-'.join(keys)
Join(keys) ==
    IF Len(keys) = 0 THEN <<>>
    ELSE IF Len(keys) = 1 THEN keys[1]
    ELSE keys[1] \o DASH \o Join(Tail(keys))

RECURSIVE JoinTrailing(_)
\* mutant of Join: a delimiter after every key, the last one included
JoinTrailing(keys) ==
    IF Len(keys) = 0 THEN <<>>
    ELSE keys[1] \o DASH \o JoinTrailing(Tail(keys))

\* mutant of combined_key: the keys joined with a trailing delimiter
combined_key_trailing(variants) ==
    Return(JoinTrailing([i \in 1..Len(variants) |-> KeyOf(variants[i])]))

\* combined_key(*variants): variants is the tuple of positional arguments
combined_key(variants) ==
    IF \E i \in 1..Len(variants) : variants[i].kind = "list"
    THEN Raise("AttributeError", "'list' object has no attribute 'key'")
    ELSE Return(Join([i \in 1..Len(variants) |-> KeyOf(variants[i])]))

(***************************************************************************)
(* Declarations: learners, decoders, settings                              *)
(***************************************************************************)
\* attelo's Keyed(key, payload)
Keyed(key, payload) == [key |-> key, payload |-> payload]

\* an object with a key field, as an argument of combined_key
AsVariant(x) == Obj(x.key)

\* attelo's LearnerConfig(attach, label); the declarations pair an attachment
\* learner with the labelling learner of the same key, which is the key of
\* the pair ('oracle', 'maxent', ...)
LearnerConfig(attach, label) ==
    [key |-> attach.key, attach |-> attach, label |-> label]

attach_learner_oracle ==
    Keyed(<<"oracle">>, [cls |-> "AttachOracle", can_predict_proba |-> TRUE])

label_learner_oracle ==
    Keyed(<<"oracle">>, [cls |-> "LabelOracle"])

attach_learner_maxent ==
    Keyed(<<"maxent">>, [cls |-> "LogisticRegression", can_predict_proba |-> TRUE])

label_learner_maxent ==
    Keyed(<<"maxent">>, [cls |-> "LogisticRegression"])

attach_learner_perc ==
    Keyed(<<"perc">>, [cls |-> "SkPerceptron", can_predict_proba |-> FALSE])

label_learner_perc ==
    Keyed(<<"perc">>, [cls |-> "SkPerceptron"])

attach_learner_dp_perc ==
    Keyed(<<"dp", "-", "perc">>, [cls |-> "Perceptron", can_predict_proba |-> FALSE])

label_learner_dp_perc ==
    Keyed(<<"dp", "-", "perc">>, [cls |-> "Perceptron"])

ORACLE == LearnerConfig(attach_learner_oracle, label_learner_oracle)

\* the learners local.py declares (those commented out included)
LearnerPool ==
    { ORACLE,
      LearnerConfig(attach_learner_maxent, label_learner_maxent),
      LearnerConfig(attach_learner_perc, label_learner_perc),
      LearnerConfig(attach_learner_dp_perc, label_learner_dp_perc) }

decoder_local == Keyed(<<"local">>, [cls |-> "LocalBaseline"])

decoder_mst == Keyed(<<"mst">>, [cls |-> "MstDecoder"])

\* tc_decoder is called by _core_parsers and defined nowhere in local.py:
\* the decoder it returns wraps its argument, under the argument's key with
\* whatever prefix the missing definition gives it
tc_decoder(kdecoder) ==
    Keyed(tc_prefix \o kdecoder.key, [cls |-> "tc", of |-> kdecoder.payload])

\* DecodingMode, and a value that is none of its members
DecodingMode == { "joint", "post_label" }

ModePool == DecodingMode \cup { "other_mode" }

\* IntraStrategy, and a value that is none of its members
IntraStrategy == { "only", "heads", "soft" }

StrategyPool == IntraStrategy \cup { "other_strategy" }

\* the intra/inter flags of a settings value (settings.intra when not None)
IntraFlagPool ==
    [strategy : StrategyPool, intra_oracle : BOOLEAN, inter_oracle : BOOLEAN]

\* the settings values handed to _mk_parser_config: key, mode, intra
SettingsPool ==
    [key : { <<"jnt">>, <<"AD.L", "-", "pst">> },
     mode : ModePool,
     intra : IntraFlagPool \cup { None }]

DecoderPool == { decoder_local, decoder_mst }

\* ParserConfig(key, decoder, payload, settings)
ParserConfig(key, decoder, payload, settings) ==
    [key |-> key, decoder |-> decoder, payload |-> payload, settings |-> settings]

\* The parser configurations _is_junk is applied to: keyed
\* <settings key>-<decoder key>, as local.py keys every parser it builds
\* (combined_key(settings, kdecoder)), and carrying the settings and the
\* decoder they were built from.
ParserConfigPool ==
    { ParserConfig(combined_key(<<AsVariant(s), AsVariant(d)>>).val,
                   [of |-> d.key, settings |-> s],
                   [mode |-> s.mode],
                   s) : s \in SettingsPool, d \in DecoderPool }

(***************************************************************************)
(* _is_junk                                                                *)
(***************************************************************************)
\* intrasentential head to head mode only works with mst
junk_heads(klearner, kdecoder) ==
    LET intra_flag == kdecoder.settings.intra
    IN  /\ kdecoder.key # <<"mst">>
        /\ intra_flag # None
        /\ intra_flag.strategy = "heads"

\* mutant of junk_oracle: both overrides are needed
junk_oracle_both(klearner, kdecoder) ==
    LET intra_flag == kdecoder.settings.intra
    IN  /\ klearner.key = <<"oracle">>
        /\ intra_flag # None
        /\ (intra_flag.intra_oracle /\ intra_flag.inter_oracle)

\* no intra/inter oracle mode if the learner already is an oracle
junk_oracle(klearner, kdecoder) ==
    LET intra_flag == kdecoder.settings.intra
    IN  /\ klearner.key = <<"oracle">>
        /\ intra_flag # None
        /\ (intra_flag.intra_oracle \/ intra_flag.inter_oracle)

\* mutant of junk_nonprob: only the joint mode is excluded
junk_nonprob_joint(klearner, kdecoder) ==
    /\ ~klearner.attach.payload.can_predict_proba
    /\ kdecoder.settings.mode = "joint"

\* a learner without probabilities only works in post-label mode
junk_nonprob(klearner, kdecoder) ==
    /\ ~klearner.attach.payload.can_predict_proba
    /\ kdecoder.settings.mode # "post_label"

_is_junk(klearner, kdecoder) ==
    IF junk_heads(klearner, kdecoder) THEN TRUE
    ELSE IF junk_oracle(klearner, kdecoder) THEN TRUE
    ELSE IF junk_nonprob(klearner, kdecoder) THEN TRUE
    ELSE FALSE

(***************************************************************************)
(* _mk_intra, _mk_parser_config                                            *)
(***************************************************************************)
\* lambda t: JointPipeline(...) / PostlabelPipeline(...), as a value
MkPipeline(cls, decoder) == [fn |-> cls, decoder |-> decoder]

\* mk_parser(t) for such a lambda
ApplyPipeline(mk_parser, t) ==
    [cls |-> mk_parser.fn,
     learner_attach |-> t.attach.payload,
     learner_label |-> t.label.payload,
     decoder |-> mk_parser.decoder]

IntraInterPair(intra, inter) == [intra |-> intra, inter |-> inter]

\* _mk_intra returns the closure _inner without looking at the strategy
_mk_intra(mk_parser, settings) ==
    [fn |-> "_inner", mk_parser |-> mk_parser, settings |-> settings,
     strategy |-> settings.strategy]

\* mutant of _inner: the two oracle flags taken for one another
_inner_swapped(closure, lcfg) ==
    LET settings == closure.settings
        strategy == closure.strategy
        oracle_cfg == LearnerConfig(attach_learner_oracle, label_learner_oracle)
        intra_cfg == IF settings.inter_oracle THEN oracle_cfg ELSE lcfg
        inter_cfg == IF settings.intra_oracle THEN oracle_cfg ELSE lcfg
        parsers == IntraInterPair(ApplyPipeline(closure.mk_parser, intra_cfg),
                                  ApplyPipeline(closure.mk_parser, inter_cfg))
    IN  IF strategy = "only" THEN Return([cls |-> "SentOnlyParser", parsers |-> parsers])
        ELSE IF strategy = "heads" THEN Return([cls |-> "HeadToHeadParser", parsers |-> parsers])
        ELSE IF strategy = "soft" THEN Return([cls |-> "SoftParser", parsers |-> parsers])
        ELSE Raise("ValueError", strategy)

\* the closure _mk_intra returned, applied to a learner configuration
_inner(closure, lcfg) ==
    LET settings == closure.settings
        strategy == closure.strategy
        oracle_cfg == LearnerConfig(attach_learner_oracle, label_learner_oracle)
        intra_cfg == IF settings.intra_oracle THEN oracle_cfg ELSE lcfg
        inter_cfg == IF settings.inter_oracle THEN oracle_cfg ELSE lcfg
        parsers == IntraInterPair(ApplyPipeline(closure.mk_parser, intra_cfg),
                                  ApplyPipeline(closure.mk_parser, inter_cfg))
    IN  IF strategy = "only" THEN Return([cls |-> "SentOnlyParser", parsers |-> parsers])
        ELSE IF strategy = "heads" THEN Return([cls |-> "HeadToHeadParser", parsers |-> parsers])
        ELSE IF strategy = "soft" THEN Return([cls |-> "SoftParser", parsers |-> parsers])
        ELSE Raise("ValueError", strategy)

_mk_parser_config(kdecoder, settings) ==
    LET \* combined_key([settings, kdecoder]): one positional argument, a list
        decoder_key == combined_key(<<List(<<AsVariant(settings), AsVariant(kdecoder)>>)>>)
        \* kdecoder.payload(settings)
        decoder == [of |-> kdecoder.key, settings |-> settings]
        \* if / elif with no else: mk_parser is bound in these two modes only
        bound == settings.mode = "joint" \/ settings.mode = "post_label"
        mk_parser == IF settings.mode = "joint"
                     THEN MkPipeline("JointPipeline", decoder)
                     ELSE MkPipeline("PostlabelPipeline", decoder)
    IN  IF decoder_key.exc # "none" THEN decoder_key
        ELSE IF ~bound THEN Raise("UnboundLocalError", "mk_parser")
        ELSE Return(ParserConfig(decoder_key.val,
                                 decoder,
                                 IF settings.intra # None
                                 THEN _mk_intra(mk_parser, settings.intra)
                                 ELSE mk_parser,
                                 settings))

(***************************************************************************)
(* The core parsers and the evaluation list                                *)
(***************************************************************************)
\* 'oracle' in key
HasOracle(key) == \E i \in 1..Len(key) : key[i] = "oracle"

\* the Settings of local.py: key, intra, oracle, children
_core_settings(key, klearner) ==
    [key |-> key, intra |-> FALSE, oracle |-> HasOracle(klearner.key),
     children |-> None]

EvaluationConfig(key, settings, learner, parser) ==
    [key |-> key, settings |-> settings, learner |-> learner, parser |-> parser]

mk_joint(klearner, kdecoder) ==
    LET settings == _core_settings(<<"AD.L", "-", "jnt">>, klearner)
        parser_key == combined_key(<<AsVariant(settings), AsVariant(kdecoder)>>).val
        key == combined_key(<<AsVariant(klearner), Str(parser_key)>>).val
        parser == [cls |-> "JointPipeline",
                   learner_attach |-> klearner.attach.payload,
                   learner_label |-> klearner.label.payload,
                   decoder |-> kdecoder.payload]
    IN  EvaluationConfig(key, settings, klearner, Keyed(parser_key, parser))

mk_post(klearner, kdecoder) ==
    LET settings == _core_settings(<<"AD.L", "-", "pst">>, klearner)
        parser_key == combined_key(<<AsVariant(settings), AsVariant(kdecoder)>>).val
        key == combined_key(<<AsVariant(klearner), Str(parser_key)>>).val
        parser == [cls |-> "PostlabelPipeline",
                   learner_attach |-> klearner.attach.payload,
                   learner_label |-> klearner.label.payload,
                   decoder |-> kdecoder.payload]
    IN  EvaluationConfig(key, settings, klearner, Keyed(parser_key, parser))

\* mutant of _core_parsers: decoder by decoder instead of mode by mode
_core_parsers_by_decoder(klearner) ==
    << mk_joint(klearner, decoder_local),
       mk_post(klearner, decoder_local),
       mk_joint(klearner, tc_decoder(decoder_mst)),
       mk_post(klearner, tc_decoder(decoder_mst)) >>

_core_parsers(klearner) ==
    << mk_joint(klearner, decoder_local),
       mk_joint(klearner, tc_decoder(decoder_mst)),
       mk_post(klearner, decoder_local),
       mk_post(klearner, tc_decoder(decoder_mst)) >>

_INTRA_INTER_CONFIGS ==
    << Keyed(<<"iheads">>, "HeadToHeadParser"),
       Keyed(<<"ionly">>, "SentOnlyParser"),
       Keyed(<<"isoft">>, "SoftParser") >>

RECURSIVE concat_l(_)
\* concat_l is not defined in local.py; util.py has concat_i, the chain of
\* an iterable of iterables, and concat_l is that chain as a list
concat_l(lists) ==
    IF Len(lists) = 0 THEN <<>> ELSE Head(lists) \o concat_l(Tail(lists))

\* itr.product(xs, ys) as a list: the first component varies slowest
Product(xs, ys) ==
    [n \in 1..(Len(xs) * Len(ys)) |->
        << xs[((n - 1) \div Len(ys)) + 1], ys[((n - 1) % Len(ys)) + 1] >>]

\* _mk_basic_intras, _mk_sorc_intras, _mk_dorc_intras and _mk_last_intras are
\* called by _evaluations and defined nowhere in local.py: each is taken to
\* give one intra/inter evaluation per core parser of the learner, keyed
\* <learner>-<intra/inter config>-<variant>-<parser>.
MkIntras(variant, klearner, kconf) ==
    LET core == _core_parsers(klearner)
    IN  [i \in 1..Len(core) |->
            EvaluationConfig(
                combined_key(<<AsVariant(klearner), AsVariant(kconf), Str(<<variant>>),
                               AsVariant(core[i].parser)>>).val,
                [key |-> combined_key(<<AsVariant(kconf), Str(<<variant>>)>>).val,
                 intra |-> TRUE, oracle |-> core[i].settings.oracle,
                 children |-> core[i].settings],
                klearner,
                Keyed(combined_key(<<AsVariant(kconf), Str(<<variant>>),
                                     AsVariant(core[i].parser)>>).val,
                      [cls |-> kconf.payload, variant |-> variant,
                       parsers |-> core[i].parser.payload]))]

_mk_basic_intras(klearner, kconf) == MkIntras("basic", klearner, kconf)

_mk_sorc_intras(klearner, kconf) == MkIntras("sorc", klearner, kconf)

_mk_dorc_intras(klearner, kconf) == MkIntras("dorc", klearner, kconf)

_mk_last_intras(klearner, kconf) == MkIntras("last", klearner, kconf)

\* a call _is_junk(*positional): the function takes (klearner, kdecoder)
Call_is_junk(positional) ==
    IF Len(positional) # 2
    THEN Raise("TypeError", "_is_junk() takes exactly 2 arguments")
    ELSE Return(_is_junk(positional[1], positional[2]))

\* the candidates of _evaluations, in enumeration order (res)
Candidates(learners) ==
    LET ipairs == Product(learners, _INTRA_INTER_CONFIGS)
    IN  concat_l(<<
            concat_l([i \in 1..Len(learners) |-> _core_parsers(learners[i])]),
            concat_l([i \in 1..Len(ipairs) |-> _mk_basic_intras(ipairs[i][1], ipairs[i][2])]),
            concat_l([i \in 1..Len(ipairs) |-> _mk_sorc_intras(ipairs[i][1], ipairs[i][2])]),
            concat_l([i \in 1..Len(ipairs) |-> _mk_dorc_intras(ipairs[i][1], ipairs[i][2])]),
            concat_l([i \in 1..Len(ipairs) |-> _mk_last_intras(ipairs[i][1], ipairs[i][2])])
        >>)

\* _evaluations() with _LOCAL_LEARNERS = learners:
\* [x for x in res if not _is_junk(x)], the first exception ending it
_evaluations(learners) ==
    LET res == Candidates(learners)
        junk == [i \in 1..Len(res) |-> Call_is_junk(<<res[i]>>)]
        raised == { i \in 1..Len(res) : junk[i].exc # "none" }
        first == CHOOSE i \in raised : \A j \in raised : i <= j
        Keep(x) == ~Call_is_junk(<<x>>).val
    IN  IF raised # {} THEN junk[first]
        ELSE Return(SelectSeq(res, Keep))

(***************************************************************************)
(* Argument universes                                                      *)
(***************************************************************************)
RECURSIVE SeqsUpTo(_, _)
SeqsUpTo(S, n) ==
    IF n = 0 THEN { <<>> }
    ELSE LET shorter == SeqsUpTo(S, n - 1)
         IN  shorter \cup { Append(s, x) : s \in { t \in shorter : Len(t) = n - 1 }, x \in S }

Components == { Str(k) : k \in KeyPool } \cup { Obj(k) : k \in KeyPool }

(***************************************************************************)
(* Actions                                                                 *)
(***************************************************************************)
Init ==
    /\ op = "none"
    /\ args = <<>>
    /\ ret = Return(None)
    /\ tc_prefix \in { <<>>, <<"tc", "-">> }

\* Every behaviour is one call of one function of the module on one input.
CallCombinedKey ==
    \E variants \in SeqsUpTo(Components, MaxVariants) :
        /\ op = "none"
        /\ op' = "combined_key"
        /\ args' = variants
        /\ ret' = combined_key(variants)
        /\ UNCHANGED tc_prefix

CallIsJunk ==
    \E klearner \in LearnerPool, kdecoder \in ParserConfigPool :
        /\ op = "none"
        /\ op' = "_is_junk"
        /\ args' = [klearner |-> klearner, kdecoder |-> kdecoder]
        /\ ret' = Return(_is_junk(klearner, kdecoder))
        /\ UNCHANGED tc_prefix

CallMkParserConfig ==
    \E kdecoder \in DecoderPool, settings \in SettingsPool :
        /\ op = "none"
        /\ op' = "_mk_parser_config"
        /\ args' = [kdecoder |-> kdecoder, settings |-> settings]
        /\ ret' = _mk_parser_config(kdecoder, settings)
        /\ UNCHANGED tc_prefix

\* _mk_intra(mk_parser, settings), and the closure it returns applied to lcfg
CallInner ==
    \E cls \in { "JointPipeline", "PostlabelPipeline" }, kdecoder \in DecoderPool,
       settings \in IntraFlagPool, lcfg \in LearnerPool :
        /\ op = "none"
        /\ op' = "_inner"
        /\ args' = [mk_parser |-> MkPipeline(cls, kdecoder.payload),
                    settings |-> settings, lcfg |-> lcfg]
        /\ ret' = _inner(_mk_intra(MkPipeline(cls, kdecoder.payload), settings), lcfg)
        /\ UNCHANGED tc_prefix

CallCoreParsers ==
    \E klearner \in LearnerPool :
        /\ op = "none"
        /\ op' = "_core_parsers"
        /\ args' = [klearner |-> klearner]
        /\ ret' = Return(_core_parsers(klearner))
        /\ UNCHANGED tc_prefix

\* the declaration lists _LOCAL_LEARNERS can be edited to: no learner twice
LearnerLists ==
    { l \in SeqsUpTo(LearnerPool, MaxLearners) :
        \A i, j \in 1..Len(l) : i # j => l[i] # l[j] }

\* EVALUATIONS = _evaluations(), at module load
CallEvaluations ==
    \E learners \in LearnerLists :
        /\ op = "none"
        /\ op' = "_evaluations"
        /\ args' = [learners |-> learners]
        /\ ret' = _evaluations(learners)
        /\ UNCHANGED tc_prefix

Next ==
    \/ CallCombinedKey
    \/ CallIsJunk
    \/ CallMkParserConfig
    \/ CallInner
    \/ CallCoreParsers
    \/ CallEvaluations

Spec == Init /\ [][Next]_vars

(***************************************************************************)
(* Claims                                                                  *)
(***************************************************************************)
\* the key a component stands for: a string is its own key
ComponentKey(v) == IF v.kind = "str" THEN v.val ELSE v.key

RECURSIVE KeyStart(_, _)
\* where the i-th key begins in the joined string
KeyStart(variants, i) ==
    IF i = 1 THEN 1
    ELSE KeyStart(variants, i - 1) + Len(ComponentKey(variants[i - 1])) + 1

\* C4: combined_key of strings and keyed objects returns their keys in input
\* order, each key in full at its place, one "-" between two neighbours and
\* nothing before the first or after the last key.
C4_JoinedInOrder ==
    op = "combined_key" =>
        LET n == Len(args)
        IN  /\ ret.exc = "none"
            /\ Len(ret.val) =
                 IF n = 0 THEN 0
                 ELSE KeyStart(args, n) + Len(ComponentKey(args[n])) - 1
            /\ \A i \in 1..n :
                 SubSeq(ret.val, KeyStart(args, i),
                        KeyStart(args, i) + Len(ComponentKey(args[i])) - 1)
                   = ComponentKey(args[i])
            /\ \A i \in 2..n : ret.val[KeyStart(args, i) - 1] = "-"

\* C4 witness: a string between two equal keyed objects, joined as given
C4_Witness ==
    /\ op = "combined_key"
    /\ args = << Obj(<<"mst">>), Str(<<"maxent">>), Obj(<<"mst">>) >>
    /\ ret = Return(<<"mst", "-", "maxent", "-", "mst">>)

\* C5 (as claimed): a head-to-head configuration of a non-oracle learner with
\* probabilities is junk if and only if its decoder is not the mst decoder.
C5_HeadsJunkIffNotMst ==
    ( /\ op = "_is_junk"
      /\ args.kdecoder.settings.intra # None
      /\ args.kdecoder.settings.intra.strategy = "heads"
      /\ args.klearner.key # <<"oracle">>
      /\ args.klearner.attach.payload.can_predict_proba )
    => (ret.val <=> args.kdecoder.decoder.of # <<"mst">>)

\* C6: a learner without probabilities outside post-label mode is junk
\* whatever the decoder and the intra/inter settings; in post-label mode it
\* is kept when no other rule applies (no intra/inter settings, or settings
\* that are not head-to-head with a learner that is not the oracle).
C6_NonProbJunk ==
    ( /\ op = "_is_junk"
      /\ ~args.klearner.attach.payload.can_predict_proba )
    => LET s == args.kdecoder.settings
       IN  /\ s.mode # "post_label" => ret = Return(TRUE)
           /\ ( /\ s.mode = "post_label"
                /\ \/ s.intra = None
                   \/ /\ s.intra.strategy # "heads"
                      /\ args.klearner.key # <<"oracle">> )
              => ret = Return(FALSE)

\* C6 witness: no probabilities, joint mode, the mst decoder, no intra/inter
\* settings: dropped
C6_Witness ==
    /\ op = "_is_junk"
    /\ ~args.klearner.attach.payload.can_predict_proba
    /\ args.kdecoder.settings.mode = "joint"
    /\ args.kdecoder.settings.intra = None
    /\ args.kdecoder.decoder.of = <<"mst">>
    /\ ret = Return(TRUE)

\* C7: the oracle learner with an intra-oracle or an inter-oracle override is
\* junk; with neither, or with no intra/inter settings, it is kept when no
\* other rule applies (not head-to-head, a learner with probabilities).
C7_OracleOverrideJunk ==
    ( /\ op = "_is_junk"
      /\ args.klearner.key = <<"oracle">> )
    => LET i == args.kdecoder.settings.intra
       IN  /\ (i # None /\ (i.intra_oracle \/ i.inter_oracle)) => ret = Return(TRUE)
           /\ ( /\ args.klearner.attach.payload.can_predict_proba
                /\ \/ i = None
                   \/ /\ ~i.intra_oracle
                      /\ ~i.inter_oracle
                      /\ i.strategy # "heads" )
              => ret = Return(FALSE)

\* C7 witness: the oracle learner, the inter-oracle override alone, a
\* strategy that is not head-to-head: dropped
C7_Witness ==
    /\ op = "_is_junk"
    /\ args.klearner = ORACLE
    /\ args.kdecoder.settings.intra # None
    /\ args.kdecoder.settings.intra.strategy = "soft"
    /\ ~args.kdecoder.settings.intra.intra_oracle
    /\ args.kdecoder.settings.intra.inter_oracle
    /\ ret = Return(TRUE)

\* C8 (as claimed): with an unrecognised decoding mode or intra/inter
\* strategy, _mk_parser_config ends in an error that names the offending
\* value.
C8_UnknownValueNamed ==
    LET s == args.settings
        badMode == s.mode \notin DecodingMode
        badStrategy == s.intra # None /\ s.intra.strategy \notin IntraStrategy
    IN  (op = "_mk_parser_config" /\ (badMode \/ badStrategy))
        => /\ ret.exc # "none"
           /\ \/ badMode /\ ret.val = s.mode
              \/ badStrategy /\ ret.val = s.intra.strategy

\* C10 (as claimed): for a decoder and recognised settings, _mk_parser_config
\* returns a configuration keyed <settings key>-<decoder key> that carries
\* the settings it was given.
C10_ParserConfigKey ==
    LET s == args.settings
    IN  ( /\ op = "_mk_parser_config"
          /\ s.mode \in DecodingMode
          /\ (s.intra = None \/ s.intra.strategy \in IntraStrategy) )
        => /\ ret.exc = "none"
           /\ ret.val.key = s.key \o <<"-">> \o args.kdecoder.key
           /\ ret.val.settings = s

\* the keys of a list of evaluations
KeysOf(evals) == [i \in 1..Len(evals) |-> evals[i].key]

C1_KeysUnique ==
    op = "_evaluations" =>
        /\ ret.exc = "none"
        /\ \A i, j \in 1..Len(ret.val) :
             i # j => ret.val[i].key # ret.val[j].key

RECURSIVE IsSubsequence(_, _)
\* whether sub is seq with some entries dropped and nothing reordered
IsSubsequence(sub, seq) ==
    IF Len(sub) = 0 THEN TRUE
    ELSE IF Len(seq) = 0 THEN FALSE
    ELSE IF Head(sub) = Head(seq) THEN IsSubsequence(Tail(sub), Tail(seq))
    ELSE IsSubsequence(sub, Tail(seq))

\* C2 (as claimed): _evaluations raises no error and returns candidates only,
\* in the order of their enumeration.
C2_FilterKeepsOrder ==
    op = "_evaluations" =>
        /\ ret.exc = "none"
        /\ IsSubsequence(ret.val, Candidates(args.learners))

\* C9 (as claimed): every declared (simple) learner is in the returned list
\* with every decoder of the core parsers.
C9_LearnerMeetsEveryDecoder ==
    op = "_evaluations" =>
        /\ ret.exc = "none"
        /\ \A n \in 1..Len(args.learners) :
             \A d \in { decoder_local, tc_decoder(decoder_mst) } :
               \E i \in 1..Len(ret.val) :
                 /\ ret.val[i].learner = args.learners[n]
                 /\ "decoder" \in DOMAIN ret.val[i].parser.payload
                 /\ ret.val[i].parser.payload.decoder = d.payload

\* the sub-parser the pipeline mk_parser builds from the learners of cfg
SubParserFrom(mk_parser, cfg) ==
    [cls |-> mk_parser.fn,
     learner_attach |-> cfg.attach.payload,
     learner_label |-> cfg.label.payload,
     decoder |-> mk_parser.decoder]

\* C11: the factory of _mk_intra, applied to a learner configuration L with a
\* recognised strategy, returns a wrapper whose intra sub-parser is built
\* from the oracle learners when settings.intra_oracle is set and from L
\* otherwise, whose inter sub-parser follows settings.inter_oracle in the
\* same way and independently, and whose kind is fixed by the strategy alone.
C11_InnerOracleSubstitution ==
    (op = "_inner" /\ args.settings.strategy \in IntraStrategy) =>
        LET s == args.settings
            fromOracle(flag) == IF flag THEN ORACLE ELSE args.lcfg
        IN  /\ ret.exc = "none"
            /\ ret.val.parsers.intra = SubParserFrom(args.mk_parser, fromOracle(s.intra_oracle))
            /\ ret.val.parsers.inter = SubParserFrom(args.mk_parser, fromOracle(s.inter_oracle))
            /\ ret.val.cls = CASE s.strategy = "only" -> "SentOnlyParser"
                               [] s.strategy = "heads" -> "HeadToHeadParser"
                               [] s.strategy = "soft" -> "SoftParser"

\* C11 witness: maxent with the intra-oracle override alone, soft strategy:
\* the intra sub-parser is the oracle's, the inter sub-parser maxent's
C11_Witness ==
    /\ op = "_inner"
    /\ args.lcfg.key = <<"maxent">>
    /\ args.settings = [strategy |-> "soft", intra_oracle |-> TRUE, inter_oracle |-> FALSE]
    /\ ret.exc = "none"
    /\ ret.val.cls = "SoftParser"
    /\ ret.val.parsers.intra.learner_attach.cls = "AttachOracle"
    /\ ret.val.parsers.inter.learner_attach.cls = "LogisticRegression"

====
